---- MODULE Spec2Model ----
(***************************************************************************)
(* PicardMatrixSolver (hermes_common/src/solvers/picard_matrix_solver.cpp) *)
(* as a state machine: one solver instance, its configuration setters, and *)
(* solve() cut into the steps of its loop.                                 *)
(*                                                                         *)
(* Numbers.  A Scalar is kept in fixed point with unit 1/One (One == 2),   *)
(* so that a damping factor below 1.0 is representable: the vector entry   *)
(* 3 stands for 1.5.  Raw iterates and initial guesses are whole numbers   *)
(* (multiples of One), which makes the damping term of the mixing formula  *)
(* exact.  Mixing coefficients are kept as whole numbers.  The problem has *)
(* one unknown (get_dimension() = 1): a vector is <<x>>, and the NULL      *)
(* pointer is <<>>.                                                        *)
(*                                                                         *)
(* Collaborators that are not part of the solver's source (the linear      *)
(* solver, the dense LU solve, the caller's hooks) answer                  *)
(* nondeterministically.                                                   *)
(***************************************************************************)
EXTENDS Integers, Sequences, FiniteSets, TLC

\* ------------------------------------------------------------- bounds
\* Raw iterates and initial guesses range over 0..MaxVal (whole numbers).
MaxVal == 1
\* set_num_last_vector_used is called with 0..MaxK.
MaxK == 3
\* set_max_allowed_iterations is called with 1..MaxIter.
MaxIter == 3

\* ------------------------------------------------------------- numbers
\* The Scalar 1.0 in fixed point.
One == 2

NULL == <<>>

Abs(x) == IF x < 0 THEN -x ELSE x

\* What the linear solver can return, and what a caller can pass as a guess.
RawIterates == {<<One * v>> : v \in 0..MaxVal}

\* Damping factors in (0, 1]: 0.5 and 1.0.
BetaValues == 1..One

\* What the dense LU solve (ludcmp, lubksb) can leave in rhs[i].
DenseSolveResults == {-1, 1}

\* The relative tolerance 1e-3 of init_picard, as 1/ToleranceDen.
ToleranceDen == 1000

RECURSIVE SumSeq(_)
SumSeq(s) == IF s = <<>> THEN 0 ELSE Head(s) + SumSeq(Tail(s))

Last(s) == s[Len(s)]

\* The number of entries of the event log l that are the event e.
CountOf(l, e) == Cardinality({i \in DOMAIN l : l[i] = e})

\* All sequences of length n over S.
SeqsOfLen(S, n) == [1..n -> S]

VARIABLES
  \* configuration (members set by the setters)
  num_last_vectors_used, anderson_beta, anderson_is_on,
  max_allowed_iterations, constant_jacobian,
  \* members that outlive a solve call
  sln_vector, jacobian_reusable, num_iters, delete_coeff_vec,
  previous_vectors, anderson_coeffs,
  \* the matrix solver's solution vector (matrix_solver->get_sln_vector())
  new_sln_vector,
  \* solve()'s argument and locals (the linked parameters)
  coeff_vec, it, vec_in_memory,
  solution_norms, solution_change_norms, residual_norms,
  \* where solve() stands, and whether it is in do_initial_step_return_finished
  pc, initial_step,
  \* the last value get_convergence_state() returned in this call
  conv_state,
  \* how the call ended: "none" while it runs
  outcome,
  \* whether a linear solve of this call failed
  linear_solve_failed,
  \* the hook whose negative answer ended this call: "none" if none did
  aborted_by,
  \* what this call did so far, in order (hooks, assembly, solves, finalize)
  log,
  \* the vectors that entered the history in this call, in order
  entered

vars == <<num_last_vectors_used, anderson_beta, anderson_is_on,
          max_allowed_iterations, constant_jacobian,
          sln_vector, jacobian_reusable, num_iters, delete_coeff_vec,
          previous_vectors, anderson_coeffs, new_sln_vector,
          coeff_vec, it, vec_in_memory,
          solution_norms, solution_change_norms, residual_norms,
          pc, initial_step, conv_state, outcome, linear_solve_failed,
          aborted_by, log, entered>>

config == <<num_last_vectors_used, anderson_beta, anderson_is_on,
            max_allowed_iterations, constant_jacobian>>

channels == <<it, vec_in_memory, solution_norms, solution_change_norms,
              residual_norms>>

anderson == <<previous_vectors, anderson_coeffs, entered>>

flags == <<initial_step, linear_solve_failed, aborted_by>>

\* ------------------------------------------------------------- helpers

\* isOkay with the bound its message names ("must be at least one").
isOkay_at_least_one == num_last_vectors_used >= 1

\* isOkay(): throws when the history capacity is below 2.
isOkay == num_last_vectors_used > 1

\* get_l2_norm of a vector with one component.
get_l2_norm(v) == Abs(v[1])

\* The solution-change norm of calculate_error: sqrt(sum |old - new|^2).
abs_error(old, new) == Abs(old[1] - new[1])

\* deinit_solving: free the guess buffer if the solver allocated it.
deinit_solving(del) == IF del THEN <<"free_coeff_vec">> ELSE <<>>

\* finalize_solving: tick, num_iters = iteration, on_finish, deinit_solving.
\* The events it adds to the log.
finalize_solving(del) == <<"tick", "set_num_iters", "on_finish">> \o deinit_solving(del)

\* ------------------------------------------------------------- setters

set_num_last_vector_used(num) ==
  /\ pc = "idle"
  /\ num_last_vectors_used' = num
  /\ UNCHANGED <<anderson_beta, anderson_is_on, max_allowed_iterations,
                 constant_jacobian, sln_vector, jacobian_reusable, num_iters,
                 delete_coeff_vec, new_sln_vector, coeff_vec, channels, pc,
                 flags, conv_state, outcome, log, anderson>>

set_anderson_beta(beta) ==
  /\ pc = "idle"
  /\ anderson_beta' = beta
  /\ UNCHANGED <<num_last_vectors_used, anderson_is_on, max_allowed_iterations,
                 constant_jacobian, sln_vector, jacobian_reusable, num_iters,
                 delete_coeff_vec, new_sln_vector, coeff_vec, channels, pc,
                 flags, conv_state, outcome, log, anderson>>

use_Anderson_acceleration(to_set) ==
  /\ pc = "idle"
  /\ anderson_is_on' = to_set
  /\ UNCHANGED <<num_last_vectors_used, anderson_beta, max_allowed_iterations,
                 constant_jacobian, sln_vector, jacobian_reusable, num_iters,
                 delete_coeff_vec, new_sln_vector, coeff_vec, channels, pc,
                 flags, conv_state, outcome, log, anderson>>

set_max_allowed_iterations(n) ==
  /\ pc = "idle"
  /\ max_allowed_iterations' = n
  /\ UNCHANGED <<num_last_vectors_used, anderson_beta, anderson_is_on,
                 constant_jacobian, sln_vector, jacobian_reusable, num_iters,
                 delete_coeff_vec, new_sln_vector, coeff_vec, channels, pc,
                 flags, conv_state, outcome, log, anderson>>

set_jacobian_constant(to_set) ==
  /\ pc = "idle"
  /\ constant_jacobian' = to_set
  /\ UNCHANGED <<num_last_vectors_used, anderson_beta, anderson_is_on,
                 max_allowed_iterations, sln_vector, jacobian_reusable,
                 num_iters, delete_coeff_vec, new_sln_vector, coeff_vec,
                 channels, pc, flags, conv_state, outcome, log,
                 anderson>>

\* ------------------------------------------------------------- acceleration

\* A slot of the history that init_anderson allocated and nothing wrote yet.
Uninitialized == <<>>

\* init_anderson: the history with the initial guess in slot 0.
init_anderson(v) ==
  <<v>> \o [i \in 1..(num_last_vectors_used - 1) |-> Uninitialized]

\* store_vector that, when full, overwrites the newest slot without shifting.
store_vector_no_shift(pv, vim, v) ==
  IF vim < num_last_vectors_used
    THEN [pv EXCEPT ![vim + 1] = v]
    ELSE [pv EXCEPT ![num_last_vectors_used] = v]

\* deinit_anderson: what it releases.  No step of solve() calls it.
deinit_anderson ==
  IF anderson_is_on THEN <<"delete_previous_vectors">> ELSE <<>>

\* handle_previous_vectors, lines 148-162: store v in the history pv that holds
\* vim vectors; when full, shift every entry down and put v last.
store_vector(pv, vim, v) ==
  IF vim < num_last_vectors_used
    THEN [pv EXCEPT ![vim + 1] = v]
    ELSE Tail(pv) \o <<v>>

\* calculate_anderson_coeffs whose last coefficient is minus the sum.
calculate_anderson_coeffs_no_one(rhs) ==
  IF num_last_vectors_used = 2
    THEN <<1>>
    ELSE rhs \o <<0 - SumSeq(rhs)>>

\* calculate_anderson_coeffs: rhs is what the dense solve left (n = k - 2
\* numbers; none for k = 2).  The last coefficient is 1.0 minus their sum.
calculate_anderson_coeffs(rhs) ==
  IF num_last_vectors_used = 2
    THEN <<1>>
    ELSE rhs \o <<1 - SumSeq(rhs)>>

\* mixed_component that adds the damping term instead of subtracting it.
RECURSIVE mixed_component_plus(_, _, _)
mixed_component_plus(pv, coeffs, j) ==
  IF j = 0 THEN 0
  ELSE mixed_component_plus(pv, coeffs, j - 1)
       + coeffs[j] * pv[j + 1][1]
       + ((One - anderson_beta) * coeffs[j] * (pv[j + 1][1] - pv[j][1])) \div One

\* handle_previous_vectors, lines 170-175: the mixed vector.  C's
\* anderson_coeffs[j-1] is coeffs[j], previous_vectors[j] is pv[j+1].
RECURSIVE mixed_component(_, _, _)
mixed_component(pv, coeffs, j) ==
  IF j = 0 THEN 0
  ELSE mixed_component(pv, coeffs, j - 1)
       + coeffs[j] * pv[j + 1][1]
       - ((One - anderson_beta) * coeffs[j] * (pv[j + 1][1] - pv[j][1])) \div One

mixed_vector(pv, coeffs) ==
  <<mixed_component(pv, coeffs, num_last_vectors_used - 1)>>

\* ------------------------------------------------------------- convergence

\* NonlinearMatrixSolver::converged for SolutionChangeRelative: the last
\* solution-change norm over the last solution norm is below the tolerance.
converged ==
  Last(solution_change_norms) * ToleranceDen < Last(solution_norms)

\* NonlinearMatrixSolver::get_convergence_state.  internal_error stands for an
\* invariant the base solver found violated.
get_convergence_state(internal_error) ==
  IF internal_error THEN "Error"
  ELSE IF converged THEN "Converged"
  ELSE IF it >= max_allowed_iterations THEN "AboveMaxIterations"
  ELSE "NotConverged"

\* handle_convergence_state_return_finished: the exception a state ends in.
thrown_for(state) ==
  CASE state = "AboveMaxIterations" -> "AboveMaxIterations"
    [] state = "Error" -> "Error"
    [] OTHER -> "UnknownConvergenceState"

\* return_finished that lets the loop go on above the iteration cap.
return_finished_not_above_max(state) ==
  state # "NotConverged" /\ state # "AboveMaxIterations"

\* handle_convergence_state_return_finished: false for NotConverged only.
return_finished(state) == state # "NotConverged"

\* ------------------------------------------------------------- solve()

\* parameter_setup that leaves the linked parameters as they were.
parameter_setup_not_reset == UNCHANGED channels

\* parameter_setup that counts no vector in the history at the start.
parameter_setup_empty_memory ==
  /\ it' = 1
  /\ vec_in_memory' = 0
  /\ solution_norms' = <<>>
  /\ solution_change_norms' = <<>>
  /\ residual_norms' = <<>>

\* solve(), lines 365-379: the locals of the call and their links.
parameter_setup ==
  /\ it' = 1
  /\ vec_in_memory' = 1
  /\ solution_norms' = <<>>
  /\ solution_change_norms' = <<>>
  /\ residual_norms' = <<>>

\* solve(), lines 361-379: init_solving (check, tick, allocate, copy the
\* guess, on_initialization), init_anderson, and the parameter setup.
solve(guess) ==
  /\ pc = "idle"
  /\ IF ~isOkay
       THEN /\ pc' = "done"
            /\ outcome' = "ConfigurationException"
            /\ UNCHANGED <<config, sln_vector, jacobian_reusable, num_iters,
                           delete_coeff_vec, new_sln_vector, coeff_vec,
                           channels, flags, conv_state, log, anderson>>
       ELSE LET zero == <<0>>
                start == IF guess = NULL THEN zero ELSE guess
            IN /\ sln_vector' = start
               /\ coeff_vec' = start
               /\ delete_coeff_vec' = (guess = NULL)
               /\ log' = <<"tick">>
                         \o (IF guess = NULL THEN <<"calloc_coeff_vec">> ELSE <<>>)
                         \o <<"on_initialization">>
                         \o (IF anderson_is_on THEN <<"new_previous_vectors">>
                                               ELSE <<>>)
               /\ IF anderson_is_on
                    THEN /\ previous_vectors' = init_anderson(start)
                         /\ entered' = <<start>>
                         /\ anderson_coeffs' = Uninitialized
                    ELSE UNCHANGED anderson
               /\ parameter_setup
               /\ initial_step' = TRUE
               /\ linear_solve_failed' = FALSE
               /\ aborted_by' = "none"
               /\ conv_state' = "none"
               /\ outcome' = "none"
               /\ pc' = "solve_linear_system"
               /\ UNCHANGED <<config, jacobian_reusable, num_iters,
                              new_sln_vector>>

\* assembly that reuses the structure when either flag is set.
assembly_either_flag == IF jacobian_reusable \/ constant_jacobian
                          THEN "assemble_residual" ELSE "assemble"

\* solve_linear_system, lines 341-351: what is assembled.
assembly == IF jacobian_reusable /\ constant_jacobian
              THEN "assemble_residual" ELSE "assemble"

\* store_initial_norm that stores nothing.
store_initial_norm_missing(norms) == norms

\* do_initial_step_return_finished line 313: in the initial step the norm of
\* the guess is the first solution norm.
store_initial_norm(norms) ==
  IF initial_step THEN Append(norms, get_l2_norm(coeff_vec)) ELSE norms

\* do_initial_step_return_finished line 313 (the initial norm), then
\* solve_linear_system: assembly, the linear solve returning raw, the residual
\* norm.  failed: the linear solver failed and the call site, which reads no
\* result, went on with whatever get_sln_vector() holds.
solve_linear_system(raw, failed) ==
  /\ pc = "solve_linear_system"
  /\ jacobian_reusable' = TRUE
  /\ new_sln_vector' = raw
  /\ log' = log \o <<assembly, "linear_solve">>
  /\ linear_solve_failed' = (linear_solve_failed \/ failed)
  /\ solution_norms' = store_initial_norm(solution_norms)
  /\ residual_norms' = Append(residual_norms, 0)
  /\ pc' = "calculate_error"
  /\ UNCHANGED <<config, sln_vector, num_iters, delete_coeff_vec, coeff_vec,
                 it, vec_in_memory, solution_change_norms, initial_step,
                 aborted_by, conv_state, outcome, anderson>>

\* solve_linear_system when matrix_solver->solve throws: nothing in solve()
\* catches, so the exception leaves solve() from line 354.
solve_linear_system_throws ==
  /\ pc = "solve_linear_system"
  /\ jacobian_reusable' = TRUE
  /\ log' = log \o <<assembly, "linear_solve">>
  /\ linear_solve_failed' = TRUE
  /\ solution_norms' = store_initial_norm(solution_norms)
  /\ outcome' = "LinearSolveException"
  /\ pc' = "done"
  /\ UNCHANGED <<config, sln_vector, num_iters, delete_coeff_vec, coeff_vec,
                 new_sln_vector, it, vec_in_memory, solution_change_norms,
                 residual_norms, initial_step, aborted_by, conv_state,
                 anderson>>

\* calculate_error without the final memcpy: sln_vector keeps the old vector.
calculate_error_no_update ==
  /\ pc = "calculate_error"
  /\ solution_norms' = Append(solution_norms, get_l2_norm(new_sln_vector))
  /\ solution_change_norms' =
       Append(solution_change_norms, abs_error(sln_vector, new_sln_vector))
  /\ pc' = "handle_previous_vectors"
  /\ UNCHANGED <<config, sln_vector, jacobian_reusable, num_iters,
                 delete_coeff_vec, coeff_vec, new_sln_vector, it,
                 vec_in_memory, residual_norms, flags, conv_state, outcome,
                 log, anderson>>

\* calculate_error: the norms of the raw iterate, then sln_vector takes it.
calculate_error ==
  /\ pc = "calculate_error"
  /\ solution_norms' = Append(solution_norms, get_l2_norm(new_sln_vector))
  /\ solution_change_norms' =
       Append(solution_change_norms, abs_error(sln_vector, new_sln_vector))
  /\ sln_vector' = new_sln_vector
  /\ pc' = "handle_previous_vectors"
  /\ UNCHANGED <<config, jacobian_reusable, num_iters, delete_coeff_vec,
                 coeff_vec, new_sln_vector, it, vec_in_memory, residual_norms,
                 flags, conv_state, outcome, log, anderson>>

\* Whether handle_previous_vectors mixes: lines 145 and 164.
mixes(vim) == anderson_is_on /\ vim >= num_last_vectors_used

\* handle_previous_vectors that also keeps the mixed vector as the newest
\* history entry.
handle_previous_vectors_keeps_mixed(rhs) ==
  /\ pc = "handle_previous_vectors"
  /\ LET vim == IF anderson_is_on /\ vec_in_memory < num_last_vectors_used
                  THEN vec_in_memory + 1 ELSE vec_in_memory
         pv == IF anderson_is_on
                 THEN store_vector(previous_vectors, vec_in_memory, sln_vector)
                 ELSE previous_vectors
         coeffs == IF mixes(vim) THEN calculate_anderson_coeffs(rhs)
                                 ELSE anderson_coeffs
         accepted == IF mixes(vim) THEN mixed_vector(pv, coeffs) ELSE sln_vector
     IN /\ Len(rhs) = (IF mixes(vim) THEN num_last_vectors_used - 2 ELSE 0)
        /\ vec_in_memory' = vim
        /\ previous_vectors' = IF mixes(vim)
                                 THEN [pv EXCEPT ![vim] = accepted]
                                 ELSE pv
        /\ anderson_coeffs' = coeffs
        /\ entered' = IF anderson_is_on THEN Append(entered, sln_vector)
                                        ELSE entered
        /\ sln_vector' = accepted
        /\ coeff_vec' = IF initial_step THEN accepted ELSE coeff_vec
  /\ pc' = "convergence"
  /\ UNCHANGED <<config, jacobian_reusable, num_iters, delete_coeff_vec,
                 new_sln_vector, it, solution_norms, solution_change_norms,
                 residual_norms, flags, conv_state, outcome, log>>

\* handle_previous_vectors (rhs: the dense solve's result), then step_info, and
\* in the initial step line 328: coeff_vec takes the accepted vector.
handle_previous_vectors(rhs) ==
  /\ pc = "handle_previous_vectors"
  /\ LET vim == IF anderson_is_on /\ vec_in_memory < num_last_vectors_used
                  THEN vec_in_memory + 1 ELSE vec_in_memory
         pv == IF anderson_is_on
                 THEN store_vector(previous_vectors, vec_in_memory, sln_vector)
                 ELSE previous_vectors
         coeffs == IF mixes(vim) THEN calculate_anderson_coeffs(rhs)
                                 ELSE anderson_coeffs
         accepted == IF mixes(vim) THEN mixed_vector(pv, coeffs) ELSE sln_vector
     IN /\ Len(rhs) = (IF mixes(vim) THEN num_last_vectors_used - 2 ELSE 0)
        /\ vec_in_memory' = vim
        /\ previous_vectors' = pv
        /\ anderson_coeffs' = coeffs
        /\ entered' = IF anderson_is_on THEN Append(entered, sln_vector)
                                        ELSE entered
        /\ sln_vector' = accepted
        /\ coeff_vec' = IF initial_step THEN accepted ELSE coeff_vec
  /\ pc' = "convergence"
  /\ UNCHANGED <<config, jacobian_reusable, num_iters, delete_coeff_vec,
                 new_sln_vector, it, solution_norms, solution_change_norms,
                 residual_norms, flags, conv_state, outcome, log>>

\* A terminal path of solve(): after the events `before`, finalize_solving
\* runs `times` times, and the call ends as `how`.
finish(before, times, how) ==
  /\ log' = log \o before \o finalize_solving(delete_coeff_vec)
                \o (IF times = 2 THEN finalize_solving(FALSE) ELSE <<>>)
  /\ num_iters' = it
  /\ delete_coeff_vec' = FALSE
  /\ outcome' = how
  /\ pc' = "done"

\* Lines 331 and 415: handle_convergence_state_return_finished on
\* get_convergence_state().  In the initial step a finished state that did not
\* throw makes solve() finalize once more (lines 382-388).
handle_convergence_state_return_finished(internal_error) ==
  /\ pc = "convergence"
  /\ LET state == get_convergence_state(internal_error)
     IN /\ conv_state' = state
        /\ IF ~return_finished(state)
             THEN /\ pc' = IF initial_step THEN "on_initial_step_end"
                                           ELSE "on_step_end"
                  /\ log' = Append(log, "get_convergence_state")
                  /\ UNCHANGED <<num_iters, delete_coeff_vec, outcome>>
             ELSE IF state = "Converged"
               THEN finish(<<"get_convergence_state">>,
                           IF initial_step THEN 2 ELSE 1, "returned")
               ELSE finish(<<"get_convergence_state">>, 1, thrown_for(state))
  /\ UNCHANGED <<config, sln_vector, jacobian_reusable, new_sln_vector,
                 coeff_vec, channels, flags, anderson>>

\* Line 334 and lines 382-390: the hook at the end of the initial step.
on_initial_step_end(answer) ==
  /\ pc = "on_initial_step_end"
  /\ IF answer
       THEN /\ log' = Append(log, "on_initial_step_end")
            /\ it' = it + 1
            /\ initial_step' = FALSE
            /\ pc' = "on_step_begin"
            /\ UNCHANGED <<num_iters, delete_coeff_vec, outcome, aborted_by>>
       ELSE /\ finish(<<"on_initial_step_end">>, 1, "returned")
            /\ aborted_by' = "on_initial_step_end"
            /\ UNCHANGED <<it, initial_step>>
  /\ UNCHANGED <<config, sln_vector, jacobian_reusable, new_sln_vector,
                 coeff_vec, vec_in_memory, solution_norms,
                 solution_change_norms, residual_norms, conv_state,
                 linear_solve_failed, anderson>>

\* on_step_begin whose abort returns without finalize_solving.
on_step_begin_no_finalize(answer) ==
  /\ pc = "on_step_begin"
  /\ log' = Append(log, "on_step_begin")
  /\ IF answer
       THEN /\ pc' = "solve_linear_system"
            /\ UNCHANGED <<outcome, aborted_by>>
       ELSE /\ outcome' = "returned"
            /\ pc' = "done"
            /\ aborted_by' = "on_step_begin"
  /\ UNCHANGED <<config, sln_vector, jacobian_reusable, new_sln_vector,
                 num_iters, delete_coeff_vec, coeff_vec, channels,
                 initial_step, linear_solve_failed, conv_state, anderson>>

\* Lines 395-400: the hook at the beginning of a step.
on_step_begin(answer) ==
  /\ pc = "on_step_begin"
  /\ IF answer
       THEN /\ log' = Append(log, "on_step_begin")
            /\ pc' = "solve_linear_system"
            /\ UNCHANGED <<num_iters, delete_coeff_vec, outcome, aborted_by>>
       ELSE /\ finish(<<"on_step_begin">>, 1, "returned")
            /\ aborted_by' = "on_step_begin"
  /\ UNCHANGED <<config, sln_vector, jacobian_reusable, new_sln_vector,
                 coeff_vec, channels, initial_step, linear_solve_failed,
                 conv_state, anderson>>

\* on_step_end without the increment of the iteration counter.
on_step_end_no_increment(answer) ==
  /\ pc = "on_step_end"
  /\ IF answer
       THEN /\ log' = Append(log, "on_step_end")
            /\ coeff_vec' = sln_vector
            /\ pc' = "on_step_begin"
            /\ UNCHANGED <<num_iters, delete_coeff_vec, outcome, aborted_by>>
       ELSE /\ finish(<<"on_step_end">>, 1, "returned")
            /\ aborted_by' = "on_step_end"
            /\ UNCHANGED coeff_vec
  /\ UNCHANGED <<config, sln_vector, jacobian_reusable, new_sln_vector, it,
                 vec_in_memory, solution_norms, solution_change_norms,
                 residual_norms, initial_step, linear_solve_failed,
                 conv_state, anderson>>

\* on_step_end that does not renew the last iteration vector (line 430).
on_step_end_no_renew(answer) ==
  /\ pc = "on_step_end"
  /\ IF answer
       THEN /\ log' = Append(log, "on_step_end")
            /\ it' = it + 1
            /\ pc' = "on_step_begin"
            /\ UNCHANGED <<num_iters, delete_coeff_vec, outcome, aborted_by>>
       ELSE /\ finish(<<"on_step_end">>, 1, "returned")
            /\ aborted_by' = "on_step_end"
            /\ UNCHANGED it
  /\ UNCHANGED <<config, sln_vector, jacobian_reusable, new_sln_vector,
                 coeff_vec, vec_in_memory, solution_norms,
                 solution_change_norms, residual_norms, initial_step,
                 linear_solve_failed, conv_state, anderson>>

\* Lines 419-430: the hook at the end of a step, the increment of the
\* iteration counter, and coeff_vec taking the accepted vector.
on_step_end(answer) ==
  /\ pc = "on_step_end"
  /\ IF answer
       THEN /\ log' = Append(log, "on_step_end")
            /\ it' = it + 1
            /\ coeff_vec' = sln_vector
            /\ pc' = "on_step_begin"
            /\ UNCHANGED <<num_iters, delete_coeff_vec, outcome, aborted_by>>
       ELSE /\ finish(<<"on_step_end">>, 1, "returned")
            /\ aborted_by' = "on_step_end"
            /\ UNCHANGED <<it, coeff_vec>>
  /\ UNCHANGED <<config, sln_vector, jacobian_reusable, new_sln_vector,
                 vec_in_memory, solution_norms, solution_change_norms,
                 residual_norms, initial_step, linear_solve_failed,
                 conv_state, anderson>>

\* Control is back at the caller: solve()'s locals are gone, the history of
\* the finished call is unreachable (init_anderson allocates anew), and the
\* matrix solver's vector is overwritten before it is read again.
return_to_caller ==
  /\ pc = "done"
  /\ pc' = "idle"
  /\ coeff_vec' = NULL
  /\ new_sln_vector' = NULL
  /\ it' = 0
  /\ vec_in_memory' = 0
  /\ solution_norms' = <<>>
  /\ solution_change_norms' = <<>>
  /\ residual_norms' = <<>>
  /\ previous_vectors' = <<>>
  /\ anderson_coeffs' = <<>>
  /\ entered' = <<>>
  /\ initial_step' = FALSE
  /\ linear_solve_failed' = FALSE
  /\ aborted_by' = "none"
  /\ conv_state' = "none"
  /\ outcome' = "none"
  /\ log' = <<>>
  /\ UNCHANGED <<config, sln_vector, jacobian_reusable, num_iters,
                 delete_coeff_vec>>

\* ------------------------------------------------------------- specification

\* The solver after its constructor (init_picard) and before any call.
Init ==
  /\ num_last_vectors_used = 3
  /\ anderson_beta = One
  /\ anderson_is_on = FALSE
  /\ max_allowed_iterations = MaxIter
  /\ constant_jacobian = FALSE
  /\ sln_vector = NULL
  /\ jacobian_reusable = FALSE
  /\ num_iters = 0
  /\ delete_coeff_vec = FALSE
  /\ previous_vectors = <<>>
  /\ anderson_coeffs = <<>>
  /\ new_sln_vector = NULL
  /\ coeff_vec = NULL
  /\ it = 0
  /\ vec_in_memory = 0
  /\ solution_norms = <<>>
  /\ solution_change_norms = <<>>
  /\ residual_norms = <<>>
  /\ pc = "idle"
  /\ initial_step = FALSE
  /\ linear_solve_failed = FALSE
  /\ aborted_by = "none"
  /\ conv_state = "none"
  /\ outcome = "none"
  /\ log = <<>>
  /\ entered = <<>>

Next ==
  \/ \E num \in 0..MaxK : set_num_last_vector_used(num)
  \/ \E beta \in BetaValues : set_anderson_beta(beta)
  \/ \E to_set \in BOOLEAN : use_Anderson_acceleration(to_set)
  \/ \E n \in 1..MaxIter : set_max_allowed_iterations(n)
  \/ \E to_set \in BOOLEAN : set_jacobian_constant(to_set)
  \/ \E guess \in {NULL} \cup RawIterates : solve(guess)
  \/ \E raw \in RawIterates, failed \in BOOLEAN : solve_linear_system(raw, failed)
  \/ solve_linear_system_throws
  \/ calculate_error
  \/ \E rhs \in UNION {SeqsOfLen(DenseSolveResults, n) : n \in 0..(MaxK - 2)} :
       handle_previous_vectors(rhs)
  \/ \E internal_error \in BOOLEAN :
       handle_convergence_state_return_finished(internal_error)
  \/ \E answer \in BOOLEAN : on_initial_step_end(answer)
  \/ \E answer \in BOOLEAN : on_step_begin(answer)
  \/ \E answer \in BOOLEAN : on_step_end(answer)
  \/ return_to_caller

Spec == Init /\ [][Next]_vars

\* ------------------------------------------------------------- properties

\* finalize_solving ran in this call: the second tick, the iteration count,
\* on_finish, and the solver-allocated guess buffer released.
Finalized ==
  /\ CountOf(log, "tick") >= 2
  /\ CountOf(log, "set_num_iters") >= 1
  /\ num_iters = it
  /\ CountOf(log, "on_finish") >= 1
  /\ ~delete_coeff_vec
  /\ CountOf(log, "free_coeff_vec") = CountOf(log, "calloc_coeff_vec")

\* The ways a solve call ends that C1 lists.
C1_Endings == {"returned", "AboveMaxIterations", "Error", "LinearSolveException"}

\* C1: however a solve call ends (Converged, AboveMaxIterations, Error, a
\* failed linear solve, a negative hook answer), the finalize sequence has run
\* by the time control returns to the caller.
C1_FinalizeOnEveryEnding ==
  (pc = "done" /\ outcome \in C1_Endings) => Finalized

LastN(s, n) == SubSeq(s, Len(s) - n + 1, Len(s))

\* C3: with acceleration on and capacity k, once k or more vectors entered
\* the history (the initial guess first), the history is the last k of them
\* in the order they entered, the oldest at index 0.
C3_HistoryHoldsLastK ==
  (anderson_is_on /\ Len(entered) >= num_last_vectors_used)
    => /\ previous_vectors = LastN(entered, num_last_vectors_used)
       /\ vec_in_memory = num_last_vectors_used

\* k+1 vectors entered a history of the largest capacity, the evicted one
\* differing from its successor.
C3_Witness ==
  /\ anderson_is_on
  /\ num_last_vectors_used = MaxK
  /\ Len(entered) = MaxK + 1
  /\ entered[1] # entered[2]
  /\ previous_vectors = SubSeq(entered, 2, MaxK + 1)

\* The number of linear solves this call performed.
LinearSolves == CountOf(log, "linear_solve")

RECURSIVE AfterLast(_, _)
AfterLast(l, e) ==
  IF l = <<>> \/ Last(l) = e THEN <<>>
  ELSE Append(AfterLast(SubSeq(l, 1, Len(l) - 1), e), Last(l))

\* C5: after get_convergence_state() yields Error or AboveMaxIterations the
\* call has ended with that failure thrown, and did nothing after the
\* evaluation but finalize; after Converged the call has ended by returning;
\* and the loop is past an evaluation only with NotConverged.
C5_TerminalStatesEndTheCall ==
  /\ conv_state \in {"Error", "AboveMaxIterations"}
       => /\ pc = "done"
          /\ outcome = conv_state
          /\ AfterLast(log, "get_convergence_state")
               \in {finalize_solving(TRUE), finalize_solving(FALSE)}
  /\ conv_state = "Converged" => (pc = "done" /\ outcome = "returned")
  /\ (pc \notin {"idle", "done"} /\ conv_state # "none")
       => conv_state = "NotConverged"

\* A call ended with the Error state in an iteration of the main loop.
C5_Witness ==
  /\ pc = "done"
  /\ conv_state = "Error"
  /\ outcome = "Error"
  /\ it > 1

\* C6: once a linear solve of the call failed, the call has ended in that
\* iteration with the Error state, and no norm of that iteration was
\* appended nor the history updated.
C6_LinearSolveFailureIsError ==
  linear_solve_failed
    => /\ pc = "done"
       /\ conv_state = "Error"
       /\ outcome = "Error"
       /\ Len(solution_change_norms) = it - 1
       /\ Len(residual_norms) = it - 1
       /\ (anderson_is_on => Len(entered) = it)

\* The accepted vector an iteration leaves: the mixed vector if the history
\* is full, the raw iterate otherwise.
AcceptedIterate ==
  IF mixes(vec_in_memory)
    THEN mixed_vector(previous_vectors, anderson_coeffs)
    ELSE new_sln_vector

\* C7: after a negative answer of on_step_begin or on_step_end the call has
\* returned without an exception, finalize ran once and right after the hook,
\* every linear solve performed belongs to a completed iteration, and
\* sln_vector is what the last completed iteration accepted.
C7_HookAbortIsNotAnError ==
  aborted_by \in {"on_step_begin", "on_step_end"}
    => /\ pc = "done"
       /\ outcome = "returned"
       /\ AfterLast(log, aborted_by)
            \in {finalize_solving(TRUE), finalize_solving(FALSE)}
       /\ CountOf(log, "on_finish") = 1
       /\ ~delete_coeff_vec
       /\ LinearSolves = CountOf(log, "get_convergence_state")
       /\ sln_vector = AcceptedIterate

\* on_step_begin answered no after an iteration that mixed.
C7_Witness ==
  /\ aborted_by = "on_step_begin"
  /\ pc = "done"
  /\ mixes(vec_in_memory)
  /\ sln_vector # new_sln_vector

\* C8: with acceleration off, whatever the capacity and the damping, the
\* accepted vector after an iteration is the raw output of its linear solve,
\* the next linear solve is handed that raw output, and every solution-change
\* norm is the distance of two consecutive raw iterates (all iterates here
\* are non-negative, so a solution norm is the iterate itself).
C8_PlainFixedPointWhenOff ==
  ~anderson_is_on
    => /\ pc \in {"handle_previous_vectors", "convergence",
                  "on_initial_step_end", "on_step_end", "on_step_begin"}
            => sln_vector = new_sln_vector
       /\ (pc = "solve_linear_system" /\ ~initial_step)
            => (coeff_vec = new_sln_vector /\ sln_vector = new_sln_vector)
       /\ \A i \in DOMAIN solution_change_norms :
            solution_change_norms[i]
              = Abs(solution_norms[i + 1] - solution_norms[i])

\* Acceleration off with damping 0.5, second iteration done, the iterate moved.
C8_Witness ==
  /\ ~anderson_is_on
  /\ anderson_beta < One
  /\ pc = "on_step_end"
  /\ it = 2
  /\ sln_vector # coeff_vec

\* The states right after handle_previous_vectors, up to the end of the step.
AfterMixing == pc \in {"convergence", "on_initial_step_end", "on_step_end"}

\* C9 as stated: with acceleration on and capacity 2, in every iteration the
\* coefficient is 1.0 and the accepted vector is the newest raw iterate, for
\* every damping factor.
C9_MixedIsNewestForAnyDamping ==
  (anderson_is_on /\ num_last_vectors_used = 2 /\ AfterMixing)
    => /\ anderson_coeffs = <<1>>
       /\ sln_vector = new_sln_vector

\* C9 amended: with acceleration on and capacity 2, in every iteration the
\* coefficient is 1.0 and the accepted vector is
\* newest - (1 - damping) * (newest - previous); it is the newest raw iterate
\* when the damping factor is 1.0.
C9_MixedIsDampedNewest ==
  (anderson_is_on /\ num_last_vectors_used = 2 /\ AfterMixing)
    => /\ anderson_coeffs = <<1>>
       /\ previous_vectors[2] = new_sln_vector
       /\ One * sln_vector[1]
            = One * new_sln_vector[1]
              - (One - anderson_beta)
                  * (new_sln_vector[1] - previous_vectors[1][1])
       /\ anderson_beta = One => sln_vector = new_sln_vector

\* Capacity 2, damping 0.5, and the two history entries differ.
C9_Witness ==
  /\ anderson_is_on
  /\ num_last_vectors_used = 2
  /\ AfterMixing
  /\ anderson_beta < One
  /\ previous_vectors[1] # previous_vectors[2]

\* C10: whenever the coefficients were computed there are k-1 of them (the
\* dense solve's k-2 and the final one) and they sum to 1.
C10_CoefficientsSumToOne ==
  anderson_coeffs # Uninitialized
    => /\ Len(anderson_coeffs) = num_last_vectors_used - 1
       /\ SumSeq(anderson_coeffs) = 1

\* Coefficients computed for the largest capacity, the dense solve's not
\* summing to zero.
C10_Witness ==
  /\ num_last_vectors_used = MaxK
  /\ anderson_coeffs # Uninitialized
  /\ anderson_coeffs[Len(anderson_coeffs)] # 1

\* A solve call that got past check() has ended.
CallEnded == pc = "done" /\ outcome # "ConfigurationException"

\* C11: the history and the coefficients are allocated once in a call with
\* acceleration on and never with it off, and are released by the time the
\* call ends.
C11_HistoryReleasedAtTheEnd ==
  /\ CountOf(log, "new_previous_vectors")
       <= (IF anderson_is_on THEN 1 ELSE 0)
  /\ CallEnded
       => CountOf(log, "delete_previous_vectors")
            = CountOf(log, "new_previous_vectors")

\* C12: when a call has ended, the guess buffer was freed once if the solver
\* allocated it and not at all if the caller supplied it, and nothing but the
\* rest of finalize happened after the free.
C12_GuessBufferFreedIffOwned ==
  /\ CountOf(log, "free_coeff_vec") <= CountOf(log, "calloc_coeff_vec")
  /\ CountOf(log, "free_coeff_vec") >= 1
       => AfterLast(log, "free_coeff_vec")
            \in {<<>>, finalize_solving(FALSE)}
  /\ CallEnded
       => /\ CountOf(log, "free_coeff_vec") = CountOf(log, "calloc_coeff_vec")
          /\ ~delete_coeff_vec

\* C13: every call starts its initial step with iteration counter 1, history
\* occupancy 1 and empty norm sequences; no other step starts a call.
C13_ChannelsResetAtEntry ==
  [][(pc = "idle" /\ pc' \notin {"idle", "done"})
       => /\ pc' = "solve_linear_system"
          /\ initial_step'
          /\ it' = 1
          /\ vec_in_memory' = 1
          /\ solution_norms' = <<>>
          /\ solution_change_norms' = <<>>
          /\ residual_norms' = <<>>]_vars

\* A call starts on a solver whose earlier call ran to the largest cap and
\* ended by an exception of the linear solver with the guess buffer owned.
C13_Witness ==
  /\ pc = "solve_linear_system"
  /\ initial_step
  /\ it = 1
  /\ num_iters = MaxIter
  /\ jacobian_reusable
  /\ solution_norms = <<>>

\* The step appends event e to the log first.
Invoked(e) == Len(log') > Len(log) /\ log'[Len(log) + 1] = e

\* The step is one of the main loop of a running call.
MainLoopStep == ~initial_step /\ pc \notin {"idle", "done"}

\* C14: in the main loop the before-step hook follows the end of the previous
\* iteration, assembly and linear solve follow the before-step hook, the norms
\* are appended after the linear solve and before the history is touched, the
\* history is updated after the norms and before convergence is evaluated,
\* convergence is evaluated once per iteration after the history update, the
\* after-step hook follows a NotConverged evaluation and the increment follows
\* the after-step hook.
C14_OrderOfAnIteration ==
  [][MainLoopStep =>
       /\ Invoked("on_step_begin")
            => Last(log) \in {"on_initial_step_end", "on_step_end"}
       /\ (Invoked("assemble") \/ Invoked("assemble_residual"))
            => /\ Last(log) = "on_step_begin"
               /\ log' = log \o <<assembly, "linear_solve">>
               /\ Len(solution_change_norms) = it - 1
               /\ UNCHANGED <<solution_norms, solution_change_norms, anderson,
                              sln_vector>>
       /\ solution_change_norms' # solution_change_norms
            => /\ Last(log) = "linear_solve"
               /\ Len(solution_change_norms') = it
               /\ Len(solution_norms') = it + 1
               /\ anderson_is_on => Len(entered) = it
               /\ UNCHANGED <<log, anderson>>
       /\ (anderson' # anderson \/ vec_in_memory' # vec_in_memory)
            => /\ Last(log) = "linear_solve"
               /\ Len(solution_change_norms) = it
               /\ CountOf(log, "get_convergence_state") = it - 1
               /\ UNCHANGED <<log, solution_norms, solution_change_norms>>
       /\ Invoked("get_convergence_state")
            => /\ Last(log) = "linear_solve"
               /\ Len(solution_change_norms) = it
               /\ anderson_is_on => Len(entered) = it + 1
               /\ CountOf(log, "get_convergence_state") = it - 1
               /\ UNCHANGED it
               /\ conv_state' # "NotConverged" => pc' = "done"
       /\ Invoked("on_step_end")
            => /\ Last(log) = "get_convergence_state"
               /\ conv_state = "NotConverged"
               /\ CountOf(log, "get_convergence_state") = it
       /\ it' # it
            => /\ it' = it + 1
               /\ log' = Append(log, "on_step_end")
               /\ pc' = "on_step_begin"]_vars

\* The main loop went round once with acceleration on and is about to start
\* the iteration at the largest cap.
C14_Witness ==
  /\ pc = "on_step_begin"
  /\ it = MaxIter
  /\ anderson_is_on
  /\ CountOf(log, "on_step_end") = 1
  /\ CountOf(log, "get_convergence_state") = MaxIter - 1

\* C15: the iteration count that finalize records is the number of linear
\* solves the call performed.
C15_RecordedCountIsLinearSolves ==
  (pc = "done" /\ CountOf(log, "set_num_iters") >= 1)
    => num_iters = LinearSolves

\* The assembly events of a log, in order.
IsAssembly(e) == e \in {"assemble", "assemble_residual"}
Assemblies(l) == SelectSeq(l, IsAssembly)

\* C16: a step assembles from scratch unless the structure is reusable and the
\* Jacobian constant, and leaves the structure reusable; so within a call a
\* non-constant Jacobian is assembled from scratch in every step, and a
\* constant one in no step but the first.
C16_AssemblyFromScratchUnlessReusable ==
  [][(Invoked("assemble") \/ Invoked("assemble_residual"))
       => /\ Invoked("assemble") <=> ~(jacobian_reusable /\ constant_jacobian)
          /\ jacobian_reusable'
          /\ Len(Assemblies(log')) = Len(Assemblies(log)) + 1
          /\ \A i \in 1..Len(Assemblies(log')) :
               Assemblies(log')[i] = "assemble"
                 <=> \/ ~constant_jacobian
                     \/ i = 1 /\ Assemblies(log) = <<>> /\ ~jacobian_reusable
                     \/ i = 1 /\ Assemblies(log) # <<>>
                              /\ Assemblies(log)[1] = "assemble"]_vars

\* A call with a constant Jacobian assembled from scratch in its first step and
\* reused the structure in a later one.
C16_Witness ==
  /\ constant_jacobian
  /\ pc = "calculate_error"
  /\ CountOf(log, "assemble") = 1
  /\ CountOf(log, "assemble_residual") >= 1
  /\ Last(log) = "linear_solve"

\* C17: with acceleration on and capacity k, the history update of iteration
\* it leaves k vectors in the history exactly when it >= k - 1; then the
\* coefficients are computed anew and the accepted solution becomes the mixed
\* vector; otherwise the coefficients are untouched and the accepted solution
\* stays the raw iterate.
C17_MixingIffHistoryFull ==
  [][(pc = "handle_previous_vectors" /\ anderson_is_on)
       => /\ sln_vector = new_sln_vector
          /\ vec_in_memory' >= num_last_vectors_used
               <=> it >= num_last_vectors_used - 1
          /\ IF vec_in_memory' >= num_last_vectors_used
               THEN /\ \E rhs \in SeqsOfLen(DenseSolveResults,
                                            num_last_vectors_used - 2) :
                         anderson_coeffs' = calculate_anderson_coeffs(rhs)
                    /\ sln_vector'
                         = mixed_vector(previous_vectors', anderson_coeffs')
               ELSE /\ anderson_coeffs' = Uninitialized
                    /\ anderson_coeffs = Uninitialized
                    /\ sln_vector' = new_sln_vector]_vars

\* With capacity 3 the first iteration left the raw iterate accepted and the
\* second one mixed to something else than its raw iterate.
C17_Witness ==
  /\ anderson_is_on
  /\ num_last_vectors_used = 3
  /\ pc = "on_step_end"
  /\ it = 2
  /\ anderson_coeffs # Uninitialized
  /\ sln_vector # new_sln_vector
  /\ sln_vector = mixed_vector(previous_vectors, anderson_coeffs)

\* The accepted solution of the last history update is a mixed vector.
Mixed == mixes(vec_in_memory)
           /\ sln_vector = mixed_vector(previous_vectors, anderson_coeffs)

\* The next iteration has the vector it assembles and solves with.
HandedOn == pc \in {"on_step_begin", "solve_linear_system"} /\ ~initial_step

\* C18 as stated: in an iteration that mixed, the norms the convergence
\* evaluation uses are the norm of the mixed vector and the norm of its
\* difference to the previous accepted vector, and the mixed vector is handed
\* to the next iteration.
C18_NormsAreOfTheMixedVector ==
  /\ (AfterMixing /\ mixes(vec_in_memory))
       => /\ Mixed
          /\ Last(solution_norms) = get_l2_norm(sln_vector)
          /\ ~initial_step
               => Last(solution_change_norms)
                    = abs_error(coeff_vec, sln_vector)
  /\ (HandedOn /\ mixes(vec_in_memory)) => Mixed /\ coeff_vec = sln_vector

\* C18 (amended): in an iteration that mixed, the mixed vector is the accepted
\* solution and is handed to the next iteration, while the norms the
\* convergence evaluation uses are the norm of the raw iterate and the norm of
\* its difference to the previous accepted vector.
C18_MixedIsAcceptedNormsAreOfRawIterate ==
  /\ (AfterMixing /\ mixes(vec_in_memory))
       => /\ Mixed
          /\ Last(solution_norms) = get_l2_norm(new_sln_vector)
          /\ Last(solution_change_norms)
               = abs_error(IF initial_step THEN entered[1] ELSE coeff_vec,
                           new_sln_vector)
  /\ (HandedOn /\ mixes(vec_in_memory)) => Mixed /\ coeff_vec = sln_vector

\* An iteration of the main loop mixed to a vector whose norm differs from the
\* recorded one, found NotConverged, and the next iteration has begun.
C18_Witness ==
  /\ HandedOn
  /\ Mixed
  /\ it = MaxIter
  /\ coeff_vec = sln_vector
  /\ sln_vector # new_sln_vector
  /\ Last(solution_norms) # get_l2_norm(sln_vector)

\* C19: a call that returned without raising invoked on_finish once and ran
\* the finalize sequence once.
C19_FinalizeOnceWhenReturning ==
  (pc = "done" /\ outcome = "returned")
    => /\ CountOf(log, "on_finish") = 1
       /\ CountOf(log, "set_num_iters") = 1
       /\ CountOf(log, "tick") = 2

\* s is t or t with entries appended.
IsPrefix(t, s) == Len(t) <= Len(s) /\ SubSeq(s, 1, Len(t)) = t

\* C20: when convergence is evaluated in iteration it, there are it
\* solution-change norms, it residual norms and it + 1 solution norms, the
\* first of them the norm of the initial guess; and no step of a running call
\* removes or alters an entry of the three sequences.
C20_NormSequencesGrowWithTheIterations ==
  [][/\ pc' = "convergence"
          => /\ Len(solution_change_norms') = it'
             /\ Len(residual_norms') = it'
             /\ Len(solution_norms') = it' + 1
             /\ anderson_is_on
                  => solution_norms'[1] = get_l2_norm(entered'[1])
     /\ pc \notin {"idle", "done"}
          => /\ IsPrefix(solution_norms, solution_norms')
             /\ IsPrefix(solution_change_norms, solution_change_norms')
             /\ IsPrefix(residual_norms, residual_norms')]_vars

\* Convergence is about to be evaluated in the iteration at the largest cap.
C20_Witness ==
  /\ pc = "convergence"
  /\ it = MaxIter
  /\ Len(solution_norms) = MaxIter + 1
  /\ Len(solution_change_norms) = MaxIter
  /\ Len(residual_norms) = MaxIter

\* The entries of the history pv that holds vim vectors.
Entries(pv, vim) == SubSeq(pv, 1, vim)

\* C21: with acceleration on, a call starts with the initial guess as the only
\* history entry; the history update appends the raw output of the iteration's
\* linear solve to the entries, dropping the oldest when full, whatever the
\* mixing then writes to the accepted solution; no other step of the call
\* touches the history, and the slots beyond the entries were never written.
C21_HistoryHoldsOnlyGuessAndRawIterates ==
  [][anderson_is_on =>
       /\ (pc = "idle" /\ pc' = "solve_linear_system")
            => /\ vec_in_memory' = 1
               /\ Entries(previous_vectors', 1) = <<coeff_vec'>>
       /\ pc = "handle_previous_vectors"
            => /\ new_sln_vector \in RawIterates
               /\ Entries(previous_vectors', vec_in_memory')
                    = LastN(Append(Entries(previous_vectors, vec_in_memory),
                                   new_sln_vector),
                            vec_in_memory')
               /\ UNCHANGED new_sln_vector
       /\ pc \notin {"idle", "done", "handle_previous_vectors"}
            => UNCHANGED <<previous_vectors, vec_in_memory>>
       /\ pc' \notin {"idle", "done"}
            => \A i \in (vec_in_memory' + 1)..num_last_vectors_used :
                 previous_vectors'[i] = Uninitialized]_vars

\* The iteration before accepted a mixed vector that no linear solve can
\* return, and the history update after it stored the next raw iterate.
C21_Witness ==
  /\ anderson_is_on
  /\ pc = "convergence"
  /\ ~initial_step
  /\ coeff_vec \notin RawIterates
  /\ vec_in_memory = num_last_vectors_used
  /\ previous_vectors[num_last_vectors_used] = new_sln_vector
  /\ \A i \in 1..num_last_vectors_used : previous_vectors[i] \in RawIterates

====
